---------------------------- MODULE Spec2Model ----------------------------
(***************************************************************************)
(* A model of ports-tool (src/src/main.rs): one scan of the kernel's TCP   *)
(* and UDP socket tables joined with the per-process descriptor tables.    *)
(*                                                                         *)
(* Representation.                                                         *)
(*   - A text that the program parses is a sequence of one-character       *)
(*     strings, so that splitting and digit-by-digit parsing are computed. *)
(*   - A socket-table line is the sequence of its whitespace-delimited     *)
(*     fields (the result of split_whitespace), each field a text.         *)
(*   - A u32 is the record [hi, lo] of its two 16-bit halves               *)
(*     (value = hi * 2^16 + lo): TLC's integers are 32-bit signed and      *)
(*     cannot hold 2^32 - 1.  A u16 is the same record with hi = 0.        *)
(*   - The dotted IPv4 string "a.b.c.d" is the tuple <<a, b, c, d>>.       *)
(*   - A descriptor link is a sequence of tokens; the prefix "socket:["    *)
(*     is one token, every other character is a token of its own.          *)
(*   - Option<T> is [some |-> FALSE] or [some |-> TRUE, v |-> x].          *)
(***************************************************************************)
EXTENDS Integers, Sequences, FiniteSets, TLC

None == [some |-> FALSE]
Some(x) == [some |-> TRUE, v |-> x]

(***************************************************************************)
(* Bounds of the model.                                                    *)
(***************************************************************************)
\* Processes visible under /proc are 1..MaxPid.
MaxPid == 2
\* External changes (exit, close, unreadable directory) during one scan.
MaxChanges == 2
\* Data lines per socket table in the table-scanning specification.
MaxRows == 2

Pids == 1..MaxPid

(***************************************************************************)
(* Integer parsing: u16::from_str_radix, u32::from_str_radix, str::parse.  *)
(***************************************************************************)
Zero32 == [hi |-> 0, lo |-> 0]

\* char::to_digit for the radices used (10 and 16); 36 stands for no digit.
DigitOf(c) ==
  CASE c = "0" -> 0 [] c = "1" -> 1 [] c = "2" -> 2 [] c = "3" -> 3
    [] c = "4" -> 4 [] c = "5" -> 5 [] c = "6" -> 6 [] c = "7" -> 7
    [] c = "8" -> 8 [] c = "9" -> 9
    [] c \in {"a", "A"} -> 10 [] c \in {"b", "B"} -> 11
    [] c \in {"c", "C"} -> 12 [] c \in {"d", "D"} -> 13
    [] c \in {"e", "E"} -> 14 [] c \in {"f", "F"} -> 15
    [] OTHER -> 36

\* The digit loop: acc = acc * radix + digit with checked arithmetic; the
\* value overflows the type when its high half exceeds hiMax.
RECURSIVE Accumulate(_, _, _, _)
Accumulate(digits, radix, hiMax, acc) ==
  IF digits = <<>> THEN [ok |-> TRUE, val |-> acc]
  ELSE LET d == DigitOf(Head(digits))
           t == acc.lo * radix + d
           hi2 == acc.hi * radix + (t \div 65536)
       IN IF d >= radix THEN [ok |-> FALSE, val |-> Zero32]
          ELSE IF hi2 > hiMax THEN [ok |-> FALSE, val |-> Zero32]
          ELSE Accumulate(Tail(digits), radix, hiMax,
                          [hi |-> hi2, lo |-> t % 65536])

\* from_str_radix of an unsigned type: empty text and a lone sign are
\* errors, one leading '+' is accepted, '-' is an invalid digit.
FromStrRadix(src, radix, hiMax) ==
  IF src = <<>> THEN [ok |-> FALSE, val |-> Zero32]
  ELSE IF Len(src) = 1 /\ src[1] \in {"+", "-"}
       THEN [ok |-> FALSE, val |-> Zero32]
  ELSE IF src[1] = "+" THEN Accumulate(Tail(src), radix, hiMax, Zero32)
  ELSE Accumulate(src, radix, hiMax, Zero32)

UnwrapOr0(r) == IF r.ok THEN r.val ELSE Zero32

\* u16::from_str_radix(s, 16).unwrap_or(0)
ParsePort(s) == UnwrapOr0(FromStrRadix(s, 16, 0)).lo
\* u32::from_str_radix(s, 16).unwrap_or(0)
ParseAddr(s) == UnwrapOr0(FromStrRadix(s, 16, 65535))
\* s.parse::<u32>()
ParseU32(s) == FromStrRadix(s, 10, 65535)

(***************************************************************************)
(* str::split(':') on a text.                                              *)
(***************************************************************************)
RECURSIVE SplitFrom(_, _, _)
SplitFrom(s, sep, cur) ==
  IF s = <<>> THEN <<cur>>
  ELSE IF Head(s) = sep THEN <<cur>> \o SplitFrom(Tail(s), sep, <<>>)
  ELSE SplitFrom(Tail(s), sep, Append(cur, Head(s)))

Split(s, sep) == SplitFrom(s, sep, <<>>)


(***************************************************************************)
(* The process side of /proc: static metadata of each process and the      *)
(* descriptor links it holds when the scan starts.                         *)
(***************************************************************************)
SocketLink(digits) == <<"socket:[">> \o digits \o <<"]">>
PipeLink(digits) == <<"p", "i", "p", "e", ":", "[">> \o digits \o <<"]">>
DevNull == <<"/", "d", "e", "v", "/", "n", "u", "l", "l">>

\* /proc/<pid>/comm, trimmed.
CommOf(p) == IF p = 1 THEN "nginx" ELSE IF p = 2 THEN "worker" ELSE "sshd"
\* /proc/<pid>/cmdline with NULs replaced by spaces, trimmed; "" when the
\* argument vector is empty.
CmdlineOf(p) ==
  IF p = 1 THEN "nginx -g daemon off;" ELSE IF p = 2 THEN "" ELSE "sshd -D"
\* /proc/<pid>/cwd; None when the link cannot be read (permission denied).
CwdOf(p) ==
  IF p = 1 THEN Some("/srv") ELSE IF p = 2 THEN None ELSE Some("/")
\* /proc/<pid>/fd when the scan starts.  Inode 5 is shared by processes 1
\* and 2 (a socket inherited across fork).
FdsOf(p) ==
  IF p = 1 THEN {SocketLink(<<"5">>), PipeLink(<<"7">>), DevNull}
  ELSE IF p = 2 THEN {SocketLink(<<"5">>),
                      SocketLink(<<"1", "2", "3", "4", "5">>)}
  ELSE {SocketLink(<<"7">>), PipeLink(<<"7">>)}

InitFs == [p \in Pids |-> [alive |-> TRUE, fdOk |-> TRUE, fds |-> FdsOf(p)]]

(***************************************************************************)
(* get_process_info: three reads, one after the other, each of which       *)
(* falls back to "unknown" when the process is gone at that moment.        *)
(***************************************************************************)
\* lines 253-256
ReadComm(pid, fsys) == IF fsys[pid].alive THEN CommOf(pid) ELSE "unknown"

\* lines 258-262
ReadCmdline(pid, fsys) ==
  IF fsys[pid].alive THEN CmdlineOf(pid) ELSE "unknown"

\* lines 264-267
ReadCwd(pid, fsys) ==
  IF fsys[pid].alive /\ CwdOf(pid).some THEN CwdOf(pid).v ELSE "unknown"

\* lines 269-278
GetProcessInfo(pid, name, command, working_dir) ==
  [pid |-> pid,
   name |-> name,
   command |-> IF command = "" THEN name ELSE command,
   working_dir |-> working_dir]

\* process_map.insert(pid, process_info)
MapInsert(map, pid, info) ==
  [q \in DOMAIN map \cup {pid} |-> IF q = pid THEN info ELSE map[q]]

\* The process table get_process_info_map builds when no process changes
\* while it runs.
FullProcessMap ==
  [p \in Pids |-> GetProcessInfo(p, ReadComm(p, InitFs),
                                 ReadCmdline(p, InitFs), ReadCwd(p, InitFs))]

(***************************************************************************)
(* find_process_by_inode                                                   *)
(***************************************************************************)
\* Faulty variant of LinkInode: the starts_with("socket:[") test is left out, so
\* that any link "<prefix>[<u32>]" counts.
LinkInodeAnyPrefix(link) ==
  LET open == {i \in 1..Len(link) : link[i] \in {"socket:[", "["}}
  IN IF open # {} /\ link[Len(link)] = "]"
     THEN LET i == CHOOSE k \in open : TRUE
              r == ParseU32(SubSeq(link, i + 1, Len(link) - 1))
          IN IF r.ok THEN Some(r.val) ELSE None
     ELSE None

\* The inode of a descriptor link: Some(inode) for "socket:[<u32>]".
LinkInode(link) ==
  IF Len(link) >= 1 /\ link[1] = "socket:["
  THEN LET rest == Tail(link)
       IN IF rest # <<>> /\ rest[Len(rest)] = "]"
          THEN LET r == ParseU32(SubSeq(rest, 1, Len(rest) - 1))
               IN IF r.ok THEN Some(r.val) ELSE None
          ELSE None
  ELSE None

\* The inner loops for one process: its descriptor directory can be listed
\* and one of its links is a socket link of the target inode.
HoldsInode(pid, target_inode, fsys) ==
  /\ fsys[pid].alive
  /\ fsys[pid].fdOk
  /\ \E link \in fsys[pid].fds : LinkInode(link) = Some(target_inode)

\* The outer loop over the map in the order the HashMap iterates it.
RECURSIVE FindFrom(_, _, _, _, _)
FindFrom(i, target_inode, process_map, order, fsys) ==
  IF i > Len(order) THEN [err |-> FALSE, pid |-> None, info |-> None]
  ELSE IF HoldsInode(order[i], target_inode, fsys)
       THEN [err |-> FALSE, pid |-> Some(order[i]),
             info |-> Some(process_map[order[i]])]
       ELSE FindFrom(i + 1, target_inode, process_map, order, fsys)

\* Faulty variant of FindProcessByInode: a descriptor directory that cannot be
\* listed is propagated as an error instead of being skipped.
FindProcessByInodeStrict(target_inode, process_map, order, fsys) ==
  IF \E i \in 1..Len(order) : ~(fsys[order[i]].alive /\ fsys[order[i]].fdOk)
  THEN [err |-> TRUE, pid |-> None, info |-> None]
  ELSE FindFrom(1, target_inode, process_map, order, fsys)

FindProcessByInode(target_inode, process_map, order, fsys) ==
  FindFrom(1, target_inode, process_map, order, fsys)

\* The iteration orders a HashMap with the keys S may have.
Orders(S) ==
  {o \in [1..Cardinality(S) -> S] : \A i, j \in DOMAIN o : o[i] = o[j] => i = j}

(***************************************************************************)
(* parse_net_line                                                          *)
(***************************************************************************)
\* Faulty variant of Ip: the octets in network byte order.
IpBigEndian(addr) ==
  <<(addr.hi \div 256) % 256, addr.hi % 256,
    (addr.lo \div 256) % 256, addr.lo % 256>>

\* The dotted string, little-endian: addr & 0xFF first.
Ip(addr) ==
  <<addr.lo % 256, (addr.lo \div 256) % 256,
    addr.hi % 256, (addr.hi \div 256) % 256>>

Listen == <<"0", "A">>

StateStr(protocol, state) ==
  IF protocol = "tcp"
  THEN CASE state = <<"0", "A">> -> "LISTEN"
         [] state = <<"0", "1">> -> "ESTABLISHED"
         [] state = <<"0", "2">> -> "SYN_SENT"
         [] state = <<"0", "3">> -> "SYN_RECV"
         [] state = <<"0", "4">> -> "FIN_WAIT1"
         [] state = <<"0", "5">> -> "FIN_WAIT2"
         [] state = <<"0", "6">> -> "TIME_WAIT"
         [] state = <<"0", "7">> -> "CLOSE"
         [] state = <<"0", "8">> -> "CLOSE_WAIT"
         [] state = <<"0", "9">> -> "LAST_ACK"
         [] state = <<"0", "B">> -> "CLOSING"
         [] OTHER -> "UNKNOWN"
  ELSE "OPEN"

ToUppercase(protocol) == IF protocol = "tcp" THEN "TCP" ELSE "UDP"

\* The localhost filter (line 177).
LocalhostDrop(localhost_only, ip) ==
  localhost_only /\ ip # <<127, 0, 0, 1>> /\ ip # <<0, 0, 0, 0>>

\* The specific-port filter (lines 182-186).
PortDrop(specific_port, port) == specific_port.some /\ port # specific_port.v

\* Faulty variant of ListenDrop: the waiver for a specific port is left out.
ListenDropAlways(protocol, state, specific_port) ==
  protocol = "tcp" /\ state # Listen

\* The TCP listen-only filter (line 209).
ListenDrop(protocol, state, specific_port) ==
  protocol = "tcp" /\ state # Listen /\ ~specific_port.some

\* The inode of a row: field 9, unparsable taken as 0.
RowInode(fields) == UnwrapOr0(ParseU32(fields[10]))

\* line 151
TooFewFields(fields) == Len(fields) < 10

\* Faulty variant of BadAddrParts: only too few parts are rejected.
BadAddrPartsLoose(addr_parts) == Len(addr_parts) < 2

\* line 160
BadAddrParts(addr_parts) == Len(addr_parts) # 2

\* Faulty variant of ShouldResolve: the resolver is called for every admitted row.
ShouldResolveAlways(inode) == TRUE

\* line 215: inode > 0
ShouldResolve(inode) == inode # Zero32

\* The record built at lines 221-229.
MakePortInfo(port, protocol, state_str, found) ==
  [port |-> port,
   protocol |-> ToUppercase(protocol),
   state |-> state_str,
   pid |-> IF found.pid.some THEN ToString(found.pid.v) ELSE "-",
   process_name |-> IF found.info.some THEN found.info.v.name ELSE "-",
   command |-> IF found.info.some THEN found.info.v.command ELSE "-",
   working_dir |-> IF found.info.some THEN found.info.v.working_dir ELSE "-"]

\* What parse_net_line returns: err (an Err propagated by `?`), out (the
\* Option<PortInfo>), and for the properties its locals: whether
\* find_process_by_inode was called and with what result, and the ip string.
Dropped == [err |-> FALSE, out |-> None, called |-> FALSE, found |-> None,
            ip |-> None]

ParseNetLine(fields, protocol, process_map, order, fsys, lo, sp) ==
  IF TooFewFields(fields) THEN Dropped
  ELSE
  LET local_address == fields[2]
      state == fields[4]
      addr_parts == Split(local_address, ":")
  IN
  IF BadAddrParts(addr_parts) THEN Dropped
  ELSE
  LET port == ParsePort(addr_parts[2])
      addr == ParseAddr(addr_parts[1])
      ip == Ip(addr)
  IN
  IF LocalhostDrop(lo, ip) THEN [Dropped EXCEPT !.ip = Some(ip)]
  ELSE IF PortDrop(sp, port) THEN [Dropped EXCEPT !.ip = Some(ip)]
  ELSE IF ListenDrop(protocol, state, sp)
       THEN [Dropped EXCEPT !.ip = Some(ip)]
  ELSE
  LET inode == RowInode(fields)
      called == ShouldResolve(inode)
      found == IF called
               THEN FindProcessByInode(inode, process_map, order, fsys)
               ELSE [err |-> FALSE, pid |-> None, info |-> None]
  IN
  IF found.err
  THEN [err |-> TRUE, out |-> None, called |-> called, found |-> Some(found),
        ip |-> Some(ip)]
  ELSE [err |-> FALSE,
        out |-> Some(MakePortInfo(port, protocol,
                                  StateStr(protocol, state), found)),
        called |-> called,
        found |-> IF called THEN Some(found) ELSE None,
        ip |-> Some(ip)]

(***************************************************************************)
(* ports.sort_by_key(|p| p.port): a stable sort, here by insertion.        *)
(***************************************************************************)
RECURSIVE InsertByKey(_, _)
InsertByKey(x, s) ==
  IF s = <<>> THEN <<x>>
  ELSE IF x.port < Head(s).port THEN <<x>> \o s
  ELSE <<Head(s)>> \o InsertByKey(x, Tail(s))

\* Faulty variant of SortByKey: an unstable sort, equal keys come out reversed.
RECURSIVE InsertBeforeEqual(_, _)
InsertBeforeEqual(x, s) ==
  IF s = <<>> THEN <<x>>
  ELSE IF x.port <= Head(s).port THEN <<x>> \o s
  ELSE <<Head(s)>> \o InsertBeforeEqual(x, Tail(s))

RECURSIVE SortByKeyUnstable(_)
SortByKeyUnstable(s) ==
  IF s = <<>> THEN <<>>
  ELSE InsertBeforeEqual(s[Len(s)], SortByKeyUnstable(SubSeq(s, 1, Len(s) - 1)))

RECURSIVE SortByKey(_)
SortByKey(s) ==
  IF s = <<>> THEN <<>>
  ELSE InsertByKey(s[Len(s)], SortByKey(SubSeq(s, 1, Len(s) - 1)))

(***************************************************************************)
(* Socket-table lines.                                                     *)
(***************************************************************************)
Fill == <<"0">>

\* A data line of 12 fields: local address in field 1, state in field 3,
\* inode in field 9 (0-based), as in /proc/net/tcp.
MkLine(local_address, state, inode) ==
  << <<"0", ":">>, local_address, <<"0", ":", "0">>, state, Fill, Fill,
     Fill, Fill, Fill, inode, Fill, Fill >>

\* A truncated line: 4 fields.
ShortLine(local_address, state) ==
  << <<"0", ":">>, local_address, <<"0", ":", "0">>, state >>

\* The header line (12 fields, no ':' in its second field).
Header ==
  << <<"s", "l">>, <<"l", "o", "c", "a", "l">>, <<"r", "e", "m">>,
     <<"s", "t">>, Fill, Fill, Fill, Fill, Fill, <<"i", "n", "o">>,
     Fill, Fill >>

Colon(a, b) == a \o <<":">> \o b

A127 == <<"0", "1", "0", "0", "0", "0", "7", "F">>
AAny == <<"0", "0", "0", "0", "0", "0", "0", "0">>
ALan == <<"0", "1", "0", "1", "A", "8", "C", "0">>
ATop == <<"C", "8", "0", "0", "0", "0", "0", "A">>
ASwap == <<"7", "F", "0", "0", "0", "0", "0", "1">>
A127Short == <<"1", "0", "0", "0", "0", "7", "F">>
A127Long == <<"0", "0", "1", "0", "0", "0", "0", "7", "F">>
ABad == <<"Z", "Z", "Z", "Z", "Z", "Z", "Z", "Z">>
AOver == <<"1", "0", "0", "0", "0", "0", "0", "7", "F">>

P80 == <<"0", "0", "5", "0">>
P8080 == <<"1", "F", "9", "0">>
P22 == <<"0", "0", "1", "6">>
PBad == <<"G", "G">>
POver == <<"1", "0", "0", "5", "0">>

StEstablished == <<"0", "1">>
StClose == <<"0", "7">>
StLower == <<"0", "a">>

I0 == <<"0">>
I5 == <<"5">>
I7 == <<"7">>
I12345 == <<"1", "2", "3", "4", "5">>
IBad == <<"x">>
IOver == <<"4", "2", "9", "4", "9", "6", "7", "2", "9", "6">>

\* Lines of the row-level specification: every combination of the address,
\* port, state and inode texts, and the malformed shapes.
RowAddrs == {A127, AAny, ALan, ATop, ASwap, A127Short, A127Long, ABad, AOver,
             <<>>}
RowPorts == {P80, P8080, PBad, POver}
RowStates == {Listen, StEstablished, StLower}
RowInodes == {I0, I5, I12345, IBad, IOver}

RowLines ==
  {MkLine(Colon(a, q), st, i) :
     a \in RowAddrs, q \in RowPorts, st \in RowStates, i \in RowInodes}
  \cup {ShortLine(Colon(A127, P80), Listen),
        MkLine(A127, Listen, I5),
        MkLine(Colon(Colon(A127, P80), P80), Listen, I5),
        Header}

\* Lines of the table-scanning specification.
TcpLines ==
  {MkLine(Colon(AAny, P80), Listen, I0),
   ShortLine(Colon(A127, P80), Listen),
   MkLine(Colon(ABad, P80), Listen, I12345)}

UdpLines ==
  {MkLine(Colon(AAny, P80), StClose, I7),
   MkLine(Colon(ALan, P22), StClose, I12345),
   MkLine(Colon(Colon(A127, P80), P80), StClose, I5)}

\* A file read by fs::read_to_string: unreadable, or its lines.
Unreadable == [ok |-> FALSE, lines |-> <<>>]
File(ls) == [ok |-> TRUE, lines |-> ls]

SeqsUpTo(S, n) == UNION {[1..k -> S] : k \in 0..n}

\* Readable tables have their header line; a readable file may also be
\* empty.
FilesOver(S) ==
  {Unreadable, File(<<>>)} \cup {File(<<Header>> \o r) : r \in SeqsUpTo(S, MaxRows)}

\* content.lines().skip(1)
Skip1(ls) == IF ls = <<>> THEN <<>> ELSE Tail(ls)

(***************************************************************************)
(* State.                                                                  *)
(***************************************************************************)
VARIABLES
  localhost_only,  \* get_open_ports argument
  specific_port,   \* get_open_ports argument, Option<u16>
  proc_ok,         \* whether read_dir("/proc") succeeds
  tcp_file,        \* /proc/net/tcp
  udp_file,        \* /proc/net/udp
  fs,              \* per process: alive, fd directory listable, fd links
  changes,         \* external changes so far
  pc,              \* position in get_open_ports
  todo,            \* /proc entries listed and not yet read
  cur,             \* the get_process_info call in progress
  process_map,     \* the HashMap built by get_process_info_map
  lines,           \* rest of the line iterator of the current table
  ports,           \* the Vec<PortInfo>
  ret,             \* "none" while running, then "Ok" or "Err"
  pushed,          \* history: ports as pushed, before the sort
  last,            \* history: the last parse_net_line call
  findCalls        \* history: calls of find_process_by_inode

vars == <<localhost_only, specific_port, proc_ok, tcp_file, udp_file, fs,
          changes, pc, todo, cur, process_map, lines, ports, ret, pushed,
          last, findCalls>>

env == <<localhost_only, specific_port, proc_ok, tcp_file, udp_file>>

build == <<todo, cur>>

\* No get_process_info call is in progress.
NoCur == [pid |-> 0, name |-> "", command |-> ""]

scanStart ==
  /\ fs = InitFs
  /\ changes = 0
  /\ pc = "map"
  /\ todo = {}
  /\ cur = NoCur
  /\ process_map = <<>>
  /\ lines = <<>>
  /\ ports = <<>>
  /\ ret = "none"
  /\ pushed = <<>>
  /\ last = None
  /\ findCalls = 0

(***************************************************************************)
(* get_open_ports, step by step.                                           *)
(***************************************************************************)
\* line 235: read_dir("/proc") lists the processes alive now; when it
\* fails the table stays empty.
ListProc ==
  /\ pc = "map"
  /\ todo' = IF proc_ok THEN {p \in Pids : fs[p].alive} ELSE {}
  /\ pc' = "comm"
  /\ UNCHANGED <<env, fs, changes, cur, process_map, lines, ports, ret,
                 pushed, last, findCalls>>

\* lines 236-238 and 253-256: the next entry, in the order read_dir gives,
\* and the first read of get_process_info.
ReadCommStep ==
  /\ pc = "comm"
  /\ \E p \in todo :
       /\ cur' = [pid |-> p, name |-> ReadComm(p, fs), command |-> ""]
       /\ todo' = todo \ {p}
  /\ pc' = "cmdline"
  /\ UNCHANGED <<env, fs, changes, process_map, lines, ports, ret, pushed,
                 last, findCalls>>

\* lines 258-262
ReadCmdlineStep ==
  /\ pc = "cmdline"
  /\ cur' = [cur EXCEPT !.command = ReadCmdline(cur.pid, fs)]
  /\ pc' = "cwd"
  /\ UNCHANGED <<env, fs, changes, todo, process_map, lines, ports, ret,
                 pushed, last, findCalls>>

\* lines 264-278 and 239: the last read, and the insertion.
ReadCwdStep ==
  /\ pc = "cwd"
  /\ process_map' =
       MapInsert(process_map, cur.pid,
                 GetProcessInfo(cur.pid, cur.name, cur.command,
                                ReadCwd(cur.pid, fs)))
  /\ cur' = NoCur
  /\ pc' = "comm"
  /\ UNCHANGED <<env, fs, changes, todo, lines, ports, ret, pushed, last,
                 findCalls>>

\* line 122, reached when get_process_info_map has returned
ReadTcp ==
  /\ \/ pc = "tcp_read"
     \/ pc = "comm" /\ todo = {}
  /\ IF tcp_file.ok
     THEN /\ lines' = Skip1(tcp_file.lines)
          /\ pc' = "tcp_lines"
     ELSE /\ pc' = "udp_read"
          /\ UNCHANGED lines
  /\ UNCHANGED <<env, build, fs, changes, process_map, ports, ret, pushed,
                 last, findCalls>>

\* One iteration of a line loop (lines 123-127, 132-136).
ParseLineStep(protocol) ==
  /\ lines # <<>>
  /\ \E order \in Orders(DOMAIN process_map) :
       LET r == ParseNetLine(Head(lines), protocol, process_map, order, fs,
                             localhost_only, specific_port)
       IN /\ last' = Some([protocol |-> protocol, line |-> Head(lines),
                           r |-> r])
          /\ findCalls' = IF r.called THEN findCalls + 1 ELSE findCalls
          /\ IF r.err
             THEN /\ ret' = "Err"
                  /\ pc' = "done"
                  /\ UNCHANGED <<ports, lines>>
             ELSE /\ ports' = IF r.out.some THEN Append(ports, r.out.v)
                              ELSE ports
                  /\ lines' = Tail(lines)
                  /\ UNCHANGED <<pc, ret>>
  /\ UNCHANGED <<env, build, fs, changes, process_map, pushed>>

ParseTcpLine == pc = "tcp_lines" /\ ParseLineStep("tcp")

\* line 131, reached when the TCP loop ends or the TCP table was unreadable
ReadUdp ==
  /\ \/ pc = "udp_read"
     \/ pc = "tcp_lines" /\ lines = <<>>
  /\ IF udp_file.ok
     THEN /\ lines' = Skip1(udp_file.lines)
          /\ pc' = "udp_lines"
     ELSE /\ pc' = "sort"
          /\ lines' = <<>>
  /\ UNCHANGED <<env, build, fs, changes, process_map, ports, ret, pushed,
                 last, findCalls>>

ParseUdpLine == pc = "udp_lines" /\ ParseLineStep("udp")

\* lines 139-140
SortAndReturn ==
  /\ \/ pc = "sort"
     \/ pc = "udp_lines" /\ lines = <<>>
  /\ pushed' = ports
  /\ ports' = SortByKey(ports)
  /\ ret' = "Ok"
  /\ pc' = "done"
  /\ UNCHANGED <<env, build, fs, changes, process_map, lines, last,
                 findCalls>>

(***************************************************************************)
(* The environment: what other processes do to /proc during the scan.      *)
(***************************************************************************)
ProcExit(p) ==
  /\ pc # "done" /\ changes < MaxChanges
  /\ fs[p].alive
  /\ fs' = [fs EXCEPT ![p].alive = FALSE]
  /\ changes' = changes + 1
  /\ UNCHANGED <<env, build, pc, process_map, lines, ports, ret, pushed,
                 last, findCalls>>

CloseFd(p, link) ==
  /\ pc # "done" /\ changes < MaxChanges
  /\ fs[p].alive /\ link \in fs[p].fds
  /\ fs' = [fs EXCEPT ![p].fds = @ \ {link}]
  /\ changes' = changes + 1
  /\ UNCHANGED <<env, build, pc, process_map, lines, ports, ret, pushed,
                 last, findCalls>>

FdDirUnreadable(p) ==
  /\ pc # "done" /\ changes < MaxChanges
  /\ fs[p].alive /\ fs[p].fdOk
  /\ fs' = [fs EXCEPT ![p].fdOk = FALSE]
  /\ changes' = changes + 1
  /\ UNCHANGED <<env, build, pc, process_map, lines, ports, ret, pushed,
                 last, findCalls>>

External ==
  \E p \in Pids :
    \/ ProcExit(p)
    \/ FdDirUnreadable(p)
    \/ \E link \in fs[p].fds : CloseFd(p, link)

\* get_process_info_map (line 119)
BuildMap ==
  \/ ListProc
  \/ ReadCommStep
  \/ ReadCmdlineStep
  \/ ReadCwdStep

\* lines 121-140
ScanTables ==
  \/ ReadTcp
  \/ ParseTcpLine
  \/ ReadUdp
  \/ ParseUdpLine
  \/ SortAndReturn

Scan == BuildMap \/ ScanTables

(***************************************************************************)
(* Specifications.                                                         *)
(*   Spec      one scan of small tables while other processes exit, close  *)
(*             descriptors and lose readable descriptor directories;       *)
(*   SpecScan  one scan of every pair of tables of up to MaxRows lines,    *)
(*             with /proc unchanged;                                       *)
(*   SpecRow   parse_net_line applied to one line of a table, over a wide  *)
(*             set of lines and both arguments.                            *)
(***************************************************************************)
RaceTcpFiles ==
  {Unreadable,
   File(<<Header, MkLine(Colon(A127, P8080), Listen, I5),
          MkLine(Colon(A127, P80), StEstablished, I12345)>>)}

RaceUdpFiles ==
  {Unreadable,
   File(<<Header, MkLine(Colon(AAny, P80), StClose, I7)>>)}

Init ==
  /\ localhost_only = TRUE
  /\ specific_port \in {None, Some(80)}
  /\ proc_ok \in BOOLEAN
  /\ tcp_file \in RaceTcpFiles
  /\ udp_file \in RaceUdpFiles
  /\ scanStart

Next == Scan \/ External

Spec == Init /\ [][Next]_vars

InitScan ==
  /\ localhost_only \in BOOLEAN
  /\ specific_port = None
  /\ proc_ok = TRUE
  /\ tcp_file \in FilesOver(TcpLines)
  /\ udp_file \in FilesOver(UdpLines)
  /\ scanStart

SpecScan == InitScan /\ [][Scan]_vars

InitRow ==
  /\ localhost_only \in BOOLEAN
  /\ specific_port \in {None, Some(80), Some(0)}
  /\ proc_ok = TRUE
  /\ tcp_file = Unreadable
  /\ udp_file = Unreadable
  /\ fs = InitFs
  /\ changes = 0
  /\ pc \in {"tcp_lines", "udp_lines"}
  /\ todo = {}
  /\ cur = NoCur
  /\ process_map = FullProcessMap
  /\ lines \in {<<l>> : l \in RowLines}
  /\ ports = <<>>
  /\ ret = "none"
  /\ pushed = <<>>
  /\ last = None
  /\ findCalls = 0

NextRow == ParseTcpLine \/ ParseUdpLine

SpecRow == InitRow /\ [][NextRow]_vars

(***************************************************************************)
(* Properties.                                                             *)
(***************************************************************************)
\* A row is well formed: at least 10 fields and a local address of exactly
\* two ':'-separated parts.
WellFormedRow(fields) ==
  Len(fields) >= 10 /\ Len(Split(fields[2], ":")) = 2

AddrText(fields) == Split(fields[2], ":")[1]
PortText(fields) == Split(fields[2], ":")[2]

\* The three drop conditions of the admission policy, for a well-formed row.
DropA(fields) ==
  /\ localhost_only
  /\ Ip(ParseAddr(AddrText(fields))) \notin {<<127, 0, 0, 1>>, <<0, 0, 0, 0>>}
DropB(fields) ==
  specific_port.some /\ ParsePort(PortText(fields)) # specific_port.v
DropC(fields, protocol) ==
  protocol = "tcp" /\ ~specific_port.some /\ fields[4] # <<"0", "A">>

Admitted(fields, protocol) ==
  /\ WellFormedRow(fields)
  /\ ~DropA(fields) /\ ~DropB(fields) /\ ~DropC(fields, protocol)

AllDash(rec) ==
  /\ rec.pid = "-" /\ rec.process_name = "-"
  /\ rec.command = "-" /\ rec.working_dir = "-"

\* A step of Next that is one call of parse_net_line.
ParseHappened ==
  /\ pc \in {"tcp_lines", "udp_lines"}
  /\ lines # <<>>
  /\ (lines' # lines \/ ret' # ret)

\* C1: a well-formed row yields a PortRecord exactly when none of the three
\* drop conditions (a), (b), (c) holds, for both protocols and every value
\* of the two arguments.
C1_Admission ==
  last.some /\ WellFormedRow(last.v.line) =>
    /\ ~last.v.r.err
    /\ last.v.r.out.some <=>
         ~(\/ DropA(last.v.line)
           \/ DropB(last.v.line)
           \/ DropC(last.v.line, last.v.protocol))

\* C1 witness: a TCP row that is not listening was admitted because a
\* specific port is set.
C1_Witness ==
  /\ last.some /\ last.v.protocol = "tcp" /\ last.v.line[4] = StEstablished
  /\ specific_port.some /\ last.v.r.out.some
  /\ last.v.r.out.v.state = "ESTABLISHED"

\* C2: an admitted row whose inode field is 0 or unparsable yields a record
\* whose four process fields are "-", and find_process_by_inode was not
\* called for it.
C2_InodeZero ==
  last.some /\ last.v.r.out.some /\ RowInode(last.v.line) = Zero32 =>
    /\ AllDash(last.v.r.out.v)
    /\ ~last.v.r.called
    /\ findCalls = 0

\* C2 witness: an admitted row whose inode text overflows u32.
C2_Witness ==
  /\ last.some /\ last.v.r.out.some /\ last.v.line[10] = IOver
  /\ last.v.r.out.v.pid = "-"

\* What find_process_by_inode sees of a process's descriptor table when it
\* runs: nothing when the process is gone or its directory is unreadable.
VisibleFds(p) == IF fs[p].alive /\ fs[p].fdOk THEN fs[p].fds ELSE {}

\* C3: a call of find_process_by_inode returns a pid of the process table
\* together with that pid's record, the process holding a link equal to
\* socket:[target]; or neither, when no process of the table holds such a
\* link.  Never one without the other.
C3_Resolver ==
  [][findCalls' # findCalls =>
       LET found == last'.v.r.found.v
           link == SocketLink(last'.v.line[10])
       IN /\ ~found.err
          /\ found.pid.some <=> found.info.some
          /\ found.pid.some =>
               /\ found.pid.v \in DOMAIN process_map
               /\ found.info.v = process_map[found.pid.v]
               /\ link \in VisibleFds(found.pid.v)
          /\ ~found.pid.some =>
               \A p \in DOMAIN process_map : link \notin VisibleFds(p)]_vars

\* C3 witnesses: a call that found the owner, and (below, C9) one that
\* found none.
C3_Witness ==
  /\ last.some /\ last.v.r.called
  /\ last.v.r.found.v.pid.some /\ last.v.r.found.v.info.some
  /\ last.v.r.out.v.pid = "2" /\ last.v.r.out.v.process_name = "worker"

\* The sorted list is ascending by port.
Ascending(s) == \A i, j \in 1..Len(s) : i < j => s[i].port <= s[j].port

\* The records of port k, in the order of s.
OfPort(s, k) == LET Is(x) == x.port = k IN SelectSeq(s, Is)

\* C4: the returned list is ascending by port, and the records of one port
\* are in the order they were pushed: TCP before UDP, and table row order
\* within a protocol.
C4_Sorted ==
  pc = "done" /\ ret = "Ok" =>
    /\ Ascending(ports)
    /\ Len(ports) = Len(pushed)
    /\ \A k \in {x.port : x \in {pushed[i] : i \in 1..Len(pushed)}} :
         /\ OfPort(ports, k) = OfPort(pushed, k)
         /\ \A i, j \in 1..Len(OfPort(ports, k)) :
              /\ OfPort(ports, k)[i].protocol = "UDP"
              /\ OfPort(ports, k)[j].protocol = "TCP"
              => j < i

\* C4 witness: the sort moved a UDP record before a TCP record of a higher
\* port, and kept two distinct TCP records and a UDP record of port 80 in
\* the order they were pushed.
C4_Witness ==
  /\ pc = "done" /\ ports # pushed
  /\ Len(OfPort(ports, 80)) = 3
  /\ OfPort(ports, 80)[1] # OfPort(ports, 80)[2]
  /\ OfPort(ports, 80)[3].protocol = "UDP"

\* The data lines of a table, as the scan iterates them.
DataLines(file) == IF file.ok THEN Skip1(file.lines) ELSE <<>>

\* Port, protocol label and state label of the records a table yields when
\* only its well-formed rows are present.
RECURSIVE ExpectedOf(_, _)
ExpectedOf(ls, protocol) ==
  IF ls = <<>> THEN <<>>
  ELSE LET rest == ExpectedOf(Tail(ls), protocol)
           f == Head(ls)
       IN IF ~WellFormedRow(f) THEN rest
          ELSE IF Admitted(f, protocol)
          THEN <<[port |-> ParsePort(PortText(f)),
                  protocol |-> IF protocol = "tcp" THEN "TCP" ELSE "UDP",
                  state |-> StateStr(protocol, f[4])]>> \o rest
          ELSE rest

Project(s) ==
  [i \in 1..Len(s) |-> [port |-> s[i].port, protocol |-> s[i].protocol,
                        state |-> s[i].state]]

\* C5: a scan ends without error and the records it pushed are those of the
\* well-formed rows of the TCP table followed by those of the UDP table, as
\* if the malformed rows were absent.
C5_MalformedSkipped ==
  pc = "done" =>
    /\ ret = "Ok"
    /\ Project(pushed) =
         ExpectedOf(DataLines(tcp_file), "tcp")
           \o ExpectedOf(DataLines(udp_file), "udp")

\* C5 witness: both tables begin with a malformed row (too few fields, three
\* address parts) followed by a row that produced a record.
C5_Witness ==
  /\ pc = "done" /\ ret = "Ok"
  /\ Len(DataLines(tcp_file)) = 2 /\ Len(DataLines(udp_file)) = 2
  /\ Len(DataLines(tcp_file)[1]) < 10
  /\ Len(DataLines(udp_file)[1]) >= 10
  /\ Len(Split(DataLines(udp_file)[1][2], ":")) = 3
  /\ Len(pushed) = 2
  /\ pushed[1].protocol = "TCP" /\ pushed[2].protocol = "UDP"

\* C6 as claimed: a well-formed row whose hex port or hex address cannot be
\* parsed yields no record.
C6_UnparsableDropped ==
  /\ last.some
  /\ WellFormedRow(last.v.line)
  /\ \/ ~FromStrRadix(AddrText(last.v.line), 16, 65535).ok
     \/ ~FromStrRadix(PortText(last.v.line), 16, 0).ok
  => ~last.v.r.out.some

\* C7 as claimed: the scan ends in an error exactly when neither socket
\* table can be read.
C7_UnreadableIsError ==
  pc = "done" =>
    IF ~tcp_file.ok /\ ~udp_file.ok THEN ret = "Err" ELSE ret = "Ok"

\* C8: the dotted string of a row whose address field parses is the
\* little-endian byte decomposition of the parsed value (octets 0 and 1
\* make up the low half, octets 2 and 3 the high half), and a leading zero
\* more or less in the hex text gives the same string.
C8_LittleEndian ==
  last.some /\ WellFormedRow(last.v.line)
    /\ FromStrRadix(AddrText(last.v.line), 16, 65535).ok =>
    LET text == AddrText(last.v.line)
        addr == FromStrRadix(text, 16, 65535).val
        ip == last.v.r.ip.v
    IN /\ last.v.r.ip.some
       /\ \A i \in 1..4 : ip[i] \in 0..255
       /\ ip[1] + 256 * ip[2] = addr.lo
       /\ ip[3] + 256 * ip[4] = addr.hi
       /\ Ip(ParseAddr(<<"0">> \o text)) = ip
       /\ Head(text) = "0" /\ Len(text) > 1 => Ip(ParseAddr(Tail(text))) = ip

\* C8 witness: 0100007F written with nine digits decoded to 127.0.0.1.
C8_Witness ==
  /\ last.some /\ WellFormedRow(last.v.line)
  /\ AddrText(last.v.line) = A127Long
  /\ last.v.r.ip = Some(<<127, 0, 0, 1>>)

\* The row's socket has no owner any more: no process of the table holds
\* its link in a descriptor table that can be listed.
Orphan(fields) ==
  \A p \in DOMAIN process_map : SocketLink(fields[10]) \notin VisibleFds(p)

\* C9: whatever other processes do during the scan, no step ends the scan
\* in an error, the process table is not changed once built, and an
\* admitted row whose socket has no owner left at resolution time is
\* pushed as a record with the four process fields "-".
C9_Races ==
  [][/\ ret' # "Err"
     /\ pc \notin {"map", "comm", "cmdline", "cwd"}
          => process_map' = process_map
     /\ ParseHappened
          /\ Admitted(Head(lines), IF pc = "tcp_lines" THEN "tcp" ELSE "udp")
          /\ Orphan(Head(lines))
        => /\ Len(ports') = Len(ports) + 1
           /\ AllDash(ports'[Len(ports')])
           /\ ports'[Len(ports')].port = ParsePort(PortText(Head(lines)))]_vars

\* C9 witness: the row of inode 5, which processes 1 and 2 of the table
\* held at the start, was pushed unresolved after they changed.
C9_Witness ==
  /\ changes > 0
  /\ DOMAIN process_map = Pids
  /\ last.some /\ last.v.line[10] = I5 /\ last.v.r.called
  /\ last.v.r.out.some /\ AllDash(last.v.r.out.v)

\* C10 as claimed: the pid a call of find_process_by_inode returns is the
\* pid it returns under every iteration order of the process table.
C10_OrderIndependent ==
  [][findCalls' # findCalls =>
       \A o \in Orders(DOMAIN process_map) :
         FindProcessByInode(RowInode(last'.v.line), process_map, o, fs).pid
           = last'.v.r.found.v.pid]_vars

=============================================================================
